---- MODULE Spec2Model ----
(***************************************************************************)
(* Model of github.com/aezhar/atomicpaths: the File and Dir objects, their *)
(* Commit/Close state machines, the move/renameToTemp directory swap and   *)
(* the temporary-name construction, over an abstract file system with a    *)
(* volatile and a durable view.                                            *)
(*                                                                         *)
(* A path is a sequence of tokens; the token "/" is the separator, every   *)
(* other token stands for a run of ordinary characters.  String            *)
(* concatenation of the source is sequence concatenation here.             *)
(***************************************************************************)
EXTENDS Integers, Sequences, FiniteSets, TLC

\* ---------------------------------------------------------------- bounds
MaxCalls == 4
MaxFaults == 2
\* retry ceiling of the creation and aside loops
MaxTries == 1000

\* ----------------------------------------------------------------- paths
Sep == "/"

\* strings.LastIndex(p, "/"), 1-based; 0 when p has no separator
LastSep(p) ==
  LET S == {i \in 1..Len(p) : p[i] = Sep}
  IN IF S = {} THEN 0 ELSE CHOOSE i \in S : \A j \in S : j <= i

\* p without its trailing separators
RECURSIVE StripTrailing(_)
StripTrailing(p) ==
  IF p # <<>> /\ p[Len(p)] = Sep THEN StripTrailing(SubSeq(p, 1, Len(p) - 1)) ELSE p

\* the components of p, empty ones included
RECURSIVE Comps(_)
Comps(p) ==
  LET S == {i \in 1..Len(p) : p[i] = Sep}
  IN IF S = {} THEN <<p>>
     ELSE LET k == CHOOSE i \in S : \A j \in S : i <= j
          IN <<SubSeq(p, 1, k - 1)>> \o Comps(SubSeq(p, k + 1, Len(p)))

RECURSIVE JoinComps(_)
JoinComps(cs) ==
  IF cs = <<>> THEN <<>>
  ELSE IF Len(cs) = 1 THEN cs[1]
  ELSE cs[1] \o <<Sep>> \o JoinComps(Tail(cs))

\* filepath.Clean, for paths without ".." components
Clean(p) ==
  LET rooted == p # <<>> /\ p[1] = Sep
      keep == SelectSeq(Comps(p), LAMBDA c : c # <<>> /\ c # <<".">>)
      body == JoinComps(keep)
  IN IF rooted THEN <<Sep>> \o body
     ELSE IF body = <<>> THEN <<".">> ELSE body

\* filepath.Dir
Dir(p) == Clean(SubSeq(p, 1, LastSep(p)))

\* filepath.Base
Base(p) ==
  IF p = <<>> THEN <<".">>
  ELSE LET q == StripTrailing(p)
       IN IF q = <<>> THEN <<Sep>> ELSE SubSeq(q, LastSep(q) + 1, Len(q))

\* filepath.Join of two elements
Join(a, b) ==
  IF a = <<>> THEN Clean(b)
  ELSE IF b = <<>> THEN Clean(a)
  ELSE Clean(a \o <<Sep>> \o b)

\* the values the 5 random bytes can encode to, abstracted to two
RandBits == {"r1", "r2"}

\* a temporary name that is the original name itself
makeTempName_Plain(originalName, r) == originalName

\* makeTempName: ".#" + originalName + "-" + randBits + ".tmp"
makeTempName(originalName, r) == <<".#">> \o originalName \o <<"-", r, ".tmp">>

\* makeTempPath, after its validity check
makeTempPath(p, r) ==
  Join(Dir(Clean(p)), makeTempName(Base(Clean(p)), r))

\* makeTempPath rejects the empty or separator-terminated cleaned path
makeTempPathInvalid(p) ==
  LET c == Clean(p) IN Len(c) = 0 \/ c[Len(c)] = Sep


\* ----------------------------------------------------------- file system
VARIABLES
  kind,        \* "file": the object is a File; "dir": it is a Dir
  origPath,    \* the origPath argument of CreateFile / CreateDir
  fs,          \* directory entries as every process sees them: path -> inode
  data,        \* inode -> content (a file's chunks, a directory's entries)
  durFs,       \* directory entries on stable storage
  metaLog,     \* directory states not yet on stable storage, oldest first
  durData,     \* the temporary file's content on stable storage
  fileOpen,    \* the embedded *os.File still holds its descriptor
  parentOpen,  \* parentFd is an open descriptor
  tempPath,    \* Name(): the temporary path
  closeFn,     \* the closeFn field
  commitFn,    \* the commitFn field (File)
  state,       \* the state bitset (File), as the set of flags that are set
  isCommitted, \* the isCommitted field (Dir)
  pc,          \* position of the calling thread
  call,        \* the API call in progress, or the last one that returned
  ret,         \* the error accumulated by, or returned from, that call
  ops,         \* the OS operations that call has issued, in order
  tries,       \* loop counter i of the creation and aside loops
  asides,      \* origTemp of every active move frame, innermost last
  faults,      \* OS failures injected so far
  calls,       \* API calls made so far
  hist         \* history of the object, for stating the properties

vars == <<kind, origPath, fs, data, durFs, metaLog, durData, fileOpen,
          parentOpen, tempPath, closeFn, commitFn, state, isCommitted, pc,
          call, ret, ops, tries, asides, faults, calls, hist>>

\* the original paths tried: bare, with a directory, absolute
PathInputs == {<<"d">>, <<"p", Sep, "d">>, <<Sep, "p", Sep, "d">>}

\* the directories that exist and hold the entries of fs
Containers == {<<".">>, <<"p">>, <<Sep, "p">>, <<Sep>>}

\* content of the file or directory found at the original path
OldFile == <<"Hello">>
OldDir == <<"foo">>
Chunk == "w"

IsDir(id) == id = "sqA" \/ (kind = "dir" /\ id \in {"old", "tmp"})

Without(f, p) == [q \in DOMAIN f \ {p} |-> f[q]]

With(f, p, id) == [q \in DOMAIN f \cup {p} |-> IF q = p THEN id ELSE f[q]]

\* a rename that leaves the old name in place beside the new one
OsRename_Copy(f, dat, old, new) ==
  LET o == Clean(old)
      n == Clean(new)
  IN IF o \notin DOMAIN f \/ Dir(n) \notin Containers THEN [res |-> "err", fs |-> f]
     ELSE IF n \in DOMAIN f /\ IsDir(f[n]) /\ dat[f[n]] # <<>>
     THEN [res |-> "exist", fs |-> f]
     ELSE [res |-> "ok", fs |-> With(f, n, f[o])]

\* rename(2) as os.Rename reaches it: "exist" is what errors.Is(err,
\* fs.ErrExist) accepts (EEXIST, ENOTEMPTY), "err" any other failure
OsRename(f, dat, old, new) ==
  LET o == Clean(old)
      n == Clean(new)
  IN IF o \notin DOMAIN f \/ Dir(n) \notin Containers THEN [res |-> "err", fs |-> f]
     ELSE IF n \notin DOMAIN f THEN [res |-> "ok", fs |-> With(Without(f, o), n, f[o])]
     ELSE IF o = n THEN [res |-> "ok", fs |-> f]
     ELSE IF IsDir(f[o]) # IsDir(f[n]) THEN [res |-> "err", fs |-> f]
     ELSE IF IsDir(f[n]) /\ dat[f[n]] # <<>> THEN [res |-> "exist", fs |-> f]
     ELSE [res |-> "ok", fs |-> With(Without(f, o), n, f[o])]

\* rename(parentFd, oldName, newName): renameat relative to the directory
\* the descriptor was opened on
rename(f, dat, oldName, newName) ==
  OsRename(f, dat, Join(Dir(origPath), oldName), Join(Dir(origPath), newName))

\* whether one more OS failure may be injected
MayFail == faults < MaxFaults

\* the two outcomes of an OS operation that can fail
Outcomes == IF MayFail THEN {TRUE, FALSE} ELSE {TRUE}

\* ------------------------------------------------------------------ Init
\* which random suffixes are already taken in the directory: with one of
\* the two taken, a loop can succeed at once, collide and then succeed, or
\* collide on every turn
SquatChoices == {{}, {"r1"}}

TempPathOf(k, p, r) ==
  IF k = "file" THEN Join(Dir(p), makeTempName(Base(p), r)) ELSE makeTempPath(p, r)

AsidePathOf(p, r) == Clean(makeTempName(p \o <<".original">>, r))

InitFs(k, p, before, sqT, sqA) ==
  LET tnames == {TempPathOf(k, p, r) : r \in sqT}
      anames == {AsidePathOf(p, r) : r \in sqA}
      dom == tnames \cup anames \cup (IF before = "absent" THEN {} ELSE {Clean(p)})
  IN [q \in dom |-> IF q = Clean(p) THEN "old"
                    ELSE IF q \in tnames THEN "sqT" ELSE "sqA"]

Init ==
  \E k \in {"file", "dir"}, p \in PathInputs :
  \* names taken for the temporary artifact: tried on the bare path
  \E sqT \in (IF LastSep(p) = 0 THEN SquatChoices ELSE {{}}) :
  \E before \in (IF k = "file" THEN {"absent", "present"}
                 ELSE {"absent", "empty", "present"}) :
  \* names taken for the aside artifact: tried where the aside loop is
  \* reached, with the temporary name fixed by sqT
  \E sqA \in (IF k = "dir" /\ before = "present" /\ LastSep(p) = 0 /\ sqT = {"r1"}
              THEN SquatChoices ELSE {{}}) :
    /\ kind = k
    /\ origPath = p
    /\ fs = InitFs(k, p, before, sqT, sqA)
    /\ data = [id \in {"old", "tmp", "sqT", "sqA"} |->
                 IF id = "tmp" \/ (id = "old" /\ before # "present") THEN <<>>
                 ELSE IF id = "old" THEN (IF k = "file" THEN OldFile ELSE OldDir)
                 ELSE <<"x">>]
    /\ durFs = InitFs(k, p, before, sqT, sqA)
    /\ metaLog = <<>>
    /\ durData = <<>>
    /\ fileOpen = FALSE
    /\ parentOpen = FALSE
    /\ tempPath = <<>>
    /\ closeFn = "none"
    /\ commitFn = "none"
    /\ state = {}
    /\ isCommitted = FALSE
    /\ pc = "start"
    /\ call = "none"
    /\ ret = "nil"
    /\ ops = <<>>
    /\ tries = 0
    /\ asides = <<>>
    /\ faults = 0
    /\ calls = 0
    /\ hist = [before |-> before, disk0 |-> InitFs(k, p, before, sqT, sqA),
               commitCalled |-> FALSE, commitOk |-> FALSE,
               closeCalled |-> FALSE, renamed |-> FALSE, discarded |-> FALSE,
               failAt |-> "none", resume |-> "none", callFaults |-> 0,
               closesAfterOk |-> 0, commitsAfterOk |-> 0, written |-> <<>>,
               asideMade |-> {},
               fsAtCall |-> InitFs(k, p, before, sqT, sqA),
               tempAtCall |-> <<>>, asideCut |-> FALSE,
               done |-> {}]

inputVars == <<kind, origPath>>
diskVars == <<fs, data, durFs, metaLog, durData>>
handleVars == <<fileOpen, parentOpen>>
objVars == <<tempPath, closeFn, commitFn, state, isCommitted>>

\* the directory entries change to f: seen at once, durable later
Mutate(f) ==
  /\ fs' = f
  /\ metaLog' = IF kind = "file" /\ f # fs THEN Append(metaLog, f) ELSE metaLog

\* an OS operation op was issued; ok tells whether a failure was injected
Issue(op, ok) ==
  /\ ops' = Append(ops, op)
  /\ faults' = faults + (IF ok THEN 0 ELSE 1)

Faulted(h, ok) == [h EXCEPT !.callFaults = @ + (IF ok THEN 0 ELSE 1)]

\* ------------------------------------------------------------ CreateFile
\* a creation that never reports an existing name
Taken_NoExcl(path) == FALSE

\* the creation fails with EEXIST: Openat with O_CREAT|O_EXCL, os.Mkdir
Taken(path) == path \in DOMAIN fs

openParent ==
  /\ pc = "start" /\ kind = "file"
  /\ \E ok \in Outcomes :
       /\ Issue("open", ok)
       /\ call' = "CreateFile"
       /\ parentOpen' = (ok /\ Dir(origPath) \in Containers)
       /\ pc' = IF parentOpen' THEN "CreateFile" ELSE "nofile"
       /\ ret' = IF parentOpen' THEN "nil" ELSE "err"
       /\ hist' = Faulted(hist, ok)
  /\ UNCHANGED <<inputVars, diskVars, fileOpen, objVars, tries, asides, calls>>

\* one turn of the loop of CreateFile
CreateFile ==
  /\ pc = "CreateFile"
  /\ IF tries >= MaxTries
     THEN /\ pc' = "nofile" /\ ret' = "ErrExhausted" /\ tries' = 0
          /\ UNCHANGED <<diskVars, handleVars, objVars, ops, faults, hist>>
     ELSE \E r \in RandBits, rnd \in Outcomes, ok \in Outcomes :
            LET tempName == makeTempName(Base(origPath), r)
                path == Join(Dir(origPath), tempName)
            IN IF ~rnd
               THEN \* makeTempName failed
                    /\ ok
                    /\ Issue("rand", FALSE)
                    /\ pc' = "nofile" /\ ret' = "err" /\ tries' = 0
                    /\ hist' = Faulted(hist, FALSE)
                    /\ UNCHANGED <<diskVars, handleVars, objVars>>
               ELSE IF ~ok
               THEN \* Openat failed, and not with EEXIST
                    /\ Issue("openat", FALSE)
                    /\ pc' = "nofile" /\ ret' = "err" /\ tries' = 0
                    /\ hist' = Faulted(hist, FALSE)
                    /\ UNCHANGED <<diskVars, handleVars, objVars>>
               ELSE IF Taken(path)
               THEN \* O_EXCL: the name is taken
                    /\ tries' = tries + 1
                    /\ UNCHANGED <<pc, ret, diskVars, handleVars, objVars, ops,
                                   faults, hist>>
               ELSE /\ Issue("openat", TRUE)
                    /\ Mutate(With(fs, path, "tmp"))
                    /\ fileOpen' = TRUE
                    /\ tempPath' = path
                    /\ closeFn' = "closeUncommitted"
                    /\ commitFn' = "commitUncommitted"
                    /\ pc' = "idle" /\ ret' = "nil" /\ tries' = 0
                    /\ UNCHANGED <<data, durFs, durData, parentOpen, state,
                                   isCommitted, hist>>
  /\ UNCHANGED <<inputVars, call, asides, calls>>

\* ------------------------------------------------------------------ File
\* a call starts: the history the properties speak about
Enter(h) ==
  [h EXCEPT !.callFaults = 0, !.fsAtCall = fs, !.tempAtCall = data["tmp"]]

\* the caller writes one chunk through the embedded *os.File
FileWrite ==
  /\ pc = "idle" /\ kind = "file" /\ calls < MaxCalls
  /\ call' = "Write" /\ calls' = calls + 1
  /\ IF ~fileOpen
     THEN /\ ret' = "err" /\ ops' = <<>>
          /\ hist' = Enter(hist)
          /\ UNCHANGED <<data, faults>>
     ELSE \E ok \in Outcomes :
            /\ ops' = <<"write">>
            /\ faults' = faults + (IF ok THEN 0 ELSE 1)
            /\ ret' = IF ok THEN "nil" ELSE "err"
            /\ data' = IF ok THEN [data EXCEPT !["tmp"] = Append(@, Chunk)] ELSE data
            /\ hist' = [Faulted(Enter(hist), ok) EXCEPT
                          !.written = IF ok THEN Append(@, Chunk) ELSE @]
  /\ UNCHANGED <<inputVars, fs, durFs, metaLog, durData, handleVars, objVars,
                 pc, tries, asides>>

\* the caller calls Sync through the embedded *os.File
FileSync ==
  /\ pc = "idle" /\ kind = "file" /\ calls < MaxCalls
  /\ call' = "Sync" /\ calls' = calls + 1
  /\ IF ~fileOpen
     THEN /\ ret' = "err" /\ ops' = <<>>
          /\ hist' = Enter(hist)
          /\ UNCHANGED <<durData, faults>>
     ELSE \E ok \in Outcomes :
            /\ ops' = <<"sync">>
            /\ faults' = faults + (IF ok THEN 0 ELSE 1)
            /\ ret' = IF ok THEN "nil" ELSE "err"
            /\ durData' = IF ok THEN data["tmp"] ELSE durData
            /\ hist' = Faulted(Enter(hist), ok)
  /\ UNCHANGED <<inputVars, fs, data, durFs, metaLog, handleVars, objVars,
                 pc, tries, asides>>

\* File.Commit: return f.commitFn()
FileCommit ==
  /\ pc = "idle" /\ kind = "file" /\ calls < MaxCalls
  /\ call' = "Commit" /\ calls' = calls + 1
  /\ pc' = commitFn
  /\ ret' = "nil" /\ ops' = <<>>
  /\ hist' = [Enter(hist) EXCEPT !.commitCalled = TRUE, !.resume = hist.failAt,
                !.commitsAfterOk = @ + (IF hist.commitOk THEN 1 ELSE 0)]
  /\ UNCHANGED <<inputVars, diskVars, handleVars, objVars, tries, asides, faults>>

\* File.Close: return f.closeFn()
FileClose ==
  /\ pc = "idle" /\ kind = "file" /\ calls < MaxCalls
  /\ call' = "Close" /\ calls' = calls + 1
  /\ pc' = closeFn
  /\ ret' = "nil" /\ ops' = <<>>
  /\ hist' = [Enter(hist) EXCEPT !.closeCalled = TRUE, !.failAt = "none",
                !.resume = hist.failAt,
                !.discarded = @ \/ ~hist.renamed,
                !.closesAfterOk = @ + (IF hist.commitOk THEN 1 ELSE 0)]
  /\ UNCHANGED <<inputVars, diskVars, handleVars, objVars, tries, asides, faults>>

closeAgainError ==
  /\ pc = "closeAgainError"
  /\ pc' = "idle" /\ ret' = "ErrInvalid"
  /\ UNCHANGED <<inputVars, diskVars, handleVars, objVars, call, ops, tries,
                 asides, faults, calls, hist>>

\* closeCommitted that leaves closeFn as it is
closeCommitted_Again ==
  /\ pc = "closeCommitted"
  /\ pc' = "idle" /\ ret' = "nil"
  /\ UNCHANGED <<inputVars, diskVars, handleVars, objVars, call, ops, tries,
                 asides, faults, calls, hist>>

closeCommitted ==
  /\ pc = "closeCommitted"
  /\ closeFn' = "closeAgainError"
  /\ pc' = "idle" /\ ret' = "nil"
  /\ UNCHANGED <<inputVars, diskVars, handleVars, tempPath, commitFn, state,
                 isCommitted, call, ops, tries, asides, faults, calls, hist>>

commitClosed ==
  /\ pc = "commitClosed"
  /\ pc' = "idle" /\ ret' = "ErrRolledBack"
  /\ UNCHANGED <<inputVars, diskVars, handleVars, objVars, call, ops, tries,
                 asides, faults, calls, hist>>

commitCommitted ==
  /\ pc = "commitCommitted"
  /\ pc' = "idle" /\ ret' = "ErrAlreadyCommitted"
  /\ UNCHANGED <<inputVars, diskVars, handleVars, objVars, call, ops, tries,
                 asides, faults, calls, hist>>

\* state.is / state.set
is(s, f) == f \in s
set(s, f) == s \cup {f}

\* a step of Commit fails: Commit returns the wrapped error
CommitFails(h, step) == [h EXCEPT !.failAt = step]

\* a step of Commit succeeds
StepDone(h, step) == [h EXCEPT !.done = @ \cup {step}]

ctlRest == <<call, tries, asides, calls>>

\* a Sync that reports success without reaching stable storage
FlushFile_Lost(ok) == durData

\* what f.File.Sync() leaves on stable storage
FlushFile(ok) == IF ok THEN data["tmp"] ELSE durData

\* commitUncommitted, lines 67-70: f.File.Sync()
cuSync ==
  /\ pc = "commitUncommitted"
  /\ IF is(state, "closed")
     THEN /\ pc' = "cu_rename"
          /\ UNCHANGED <<durData, ret, ops, faults, hist>>
     ELSE IF ~fileOpen
     THEN \* Sync on a closed *os.File: os.ErrClosed
          /\ ops' = Append(ops, "sync@closed")
          /\ pc' = "idle" /\ ret' = "err"
          /\ hist' = CommitFails(hist, "sync")
          /\ UNCHANGED <<durData, faults>>
     ELSE \E ok \in Outcomes :
            /\ Issue("sync", ok)
            /\ durData' = FlushFile(ok)
            /\ pc' = IF ok THEN "cu_close" ELSE "idle"
            /\ ret' = IF ok THEN ret ELSE "err"
            /\ hist' = IF ok THEN StepDone(hist, "sync")
                       ELSE CommitFails(Faulted(hist, ok), "sync")
  /\ UNCHANGED <<inputVars, fs, data, durFs, metaLog, handleVars, objVars, ctlRest>>

\* the closed flag is never recorded
AfterClose_Forgotten(ok) == state

\* the closed flag is recorded whatever f.File.Close() returned
AfterClose_Eager(ok) == set(state, "closed")

\* the state bitset after f.File.Close() in commitUncommitted
AfterClose(ok) == IF ok THEN set(state, "closed") ELSE state

\* commitUncommitted, lines 71-75: f.File.Close(), then set(closed)
cuClose ==
  /\ pc = "cu_close"
  /\ \E ok \in Outcomes :
       /\ Issue("close", ok)
       /\ fileOpen' = FALSE
       /\ state' = AfterClose(ok)
       /\ pc' = IF ok THEN "cu_rename" ELSE "idle"
       /\ ret' = IF ok THEN ret ELSE "err"
       /\ hist' = IF ok THEN StepDone(hist, "close")
                  ELSE CommitFails(Faulted(hist, ok), "close")
  /\ UNCHANGED <<inputVars, diskVars, parentOpen, tempPath, closeFn, commitFn,
                 isCommitted, ctlRest>>

\* the placed flag is recorded whatever rename returned
AfterRename_Eager(done) == set(state, "placed")

\* the state bitset after rename(f.parentFd, oldName, newName)
AfterRename(done) == IF done THEN set(state, "placed") ELSE state

\* commitUncommitted, lines 78-86: rename into place, then set(placed)
cuRename ==
  /\ pc = "cu_rename"
  /\ IF is(state, "placed")
     THEN /\ pc' = "cu_fsync"
          /\ UNCHANGED <<fs, metaLog, state, ret, ops, faults, hist>>
     ELSE \E ok \in Outcomes :
            LET r == rename(fs, data, Base(tempPath), Base(origPath))
                done == ok /\ parentOpen /\ r.res = "ok"
            IN /\ Issue(IF parentOpen THEN "rename" ELSE "rename@closed", ok)
               /\ Mutate(IF done THEN r.fs ELSE fs)
               /\ state' = AfterRename(done)
               /\ pc' = IF done THEN "cu_fsync" ELSE "idle"
               /\ ret' = IF done THEN ret ELSE "err"
               /\ hist' = IF done THEN [StepDone(hist, "rename") EXCEPT !.renamed = TRUE]
                          ELSE CommitFails(Faulted(hist, ok), "rename")
  /\ UNCHANGED <<inputVars, data, durFs, durData, handleVars, tempPath, closeFn,
                 commitFn, isCommitted, ctlRest>>

\* commitUncommitted, lines 88-92: unix.Fsync(f.parentFd)
cuFsync ==
  /\ pc = "cu_fsync"
  /\ IF is(state, "synced")
     THEN /\ pc' = "idle" /\ ret' = "nil"
          /\ UNCHANGED <<durFs, metaLog, ops, faults, hist>>
     ELSE IF ~parentOpen
     THEN \* Fsync on a closed descriptor: EBADF
          /\ ops' = Append(ops, "fsync@closed")
          /\ pc' = "idle" /\ ret' = "err"
          /\ hist' = CommitFails(hist, "fsync")
          /\ UNCHANGED <<durFs, metaLog, faults>>
     ELSE \E ok \in Outcomes :
            /\ Issue("fsync", ok)
            /\ durFs' = IF ok THEN fs ELSE durFs
            /\ metaLog' = IF ok THEN <<>> ELSE metaLog
            /\ pc' = IF ok THEN "cu_pclose" ELSE "idle"
            /\ ret' = IF ok THEN ret ELSE "err"
            /\ hist' = IF ok THEN StepDone(hist, "fsync")
                       ELSE CommitFails(Faulted(hist, ok), "fsync")
  /\ UNCHANGED <<inputVars, fs, data, durData, handleVars, objVars, ctlRest>>

\* commitUncommitted, lines 93-103: unix.Close(f.parentFd), then the object
\* becomes committed
cuPclose ==
  /\ pc = "cu_pclose"
  /\ \E ok \in Outcomes :
       /\ Issue("pclose", ok)
       /\ parentOpen' = FALSE
       /\ closeFn' = IF ok THEN "closeCommitted" ELSE closeFn
       /\ commitFn' = IF ok THEN "commitCommitted" ELSE commitFn
       /\ state' = IF ok THEN set(state, "synced") ELSE state
       /\ pc' = "idle"
       /\ ret' = IF ok THEN "nil" ELSE "err"
       /\ hist' = IF ok THEN [StepDone(hist, "pclose") EXCEPT
                                 !.commitOk = TRUE, !.failAt = "none"]
                  ELSE CommitFails(Faulted(hist, ok), "pclose")
  /\ UNCHANGED <<inputVars, diskVars, fileOpen, tempPath, isCommitted, ctlRest>>

\* commitFn is left as it was
RolledBackFn_Stale == commitFn

\* closeUncommitted, line 38: f.commitFn = f.commitClosed
RolledBackFn == "commitClosed"

\* closeUncommitted, lines 37-43: the function fields, then f.File.Close()
xuClose ==
  /\ pc = "closeUncommitted"
  /\ closeFn' = "closeAgainError"
  /\ commitFn' = RolledBackFn
  /\ IF is(state, "closed")
     THEN UNCHANGED <<fileOpen, state, ret, ops, faults, hist>>
     ELSE /\ state' = set(state, "closed")
          /\ fileOpen' = FALSE
          /\ IF ~fileOpen
             THEN \* Close on a closed *os.File: os.ErrClosed
                  /\ ops' = Append(ops, "close@closed")
                  /\ ret' = "err"
                  /\ UNCHANGED <<faults, hist>>
             ELSE \E ok \in Outcomes :
                    /\ Issue("close", ok)
                    /\ ret' = IF ok THEN ret ELSE "err"
                    /\ hist' = Faulted(hist, ok)
  /\ pc' = "xu_remove"
  /\ UNCHANGED <<inputVars, diskVars, parentOpen, tempPath, isCommitted, ctlRest>>

\* the temporary file is left behind
RemoveTemp_Skipped(f) == f

\* os.Remove(f.Name()) on the directory entries f
RemoveTemp(f) == Without(f, tempPath)

\* the remove is issued whatever the flags say
SkipRemove_Never == FALSE

\* closeUncommitted, line 45: the test of the placed flag
SkipRemove == is(state, "placed")

\* closeUncommitted, lines 45-48: os.Remove(f.Name())
xuRemove ==
  /\ pc = "xu_remove"
  /\ IF SkipRemove
     THEN UNCHANGED <<fs, metaLog, state, ret, ops, faults, hist>>
     ELSE /\ state' = set(state, "placed")
          /\ \E ok \in Outcomes :
               LET gone == ok /\ tempPath \in DOMAIN fs
               IN /\ Issue("remove", ok)
                  /\ Mutate(IF gone THEN RemoveTemp(fs) ELSE fs)
                  /\ ret' = IF gone THEN ret ELSE "err"
                  /\ hist' = IF gone THEN StepDone(hist, "remove")
                             ELSE Faulted(hist, ok)
  /\ pc' = "xu_pclose"
  /\ UNCHANGED <<inputVars, data, durFs, durData, handleVars, tempPath, closeFn,
                 commitFn, isCommitted, ctlRest>>

\* closeUncommitted, lines 50-55: unix.Close(f.parentFd), return
xuPclose ==
  /\ pc = "xu_pclose"
  /\ IF is(state, "synced")
     THEN UNCHANGED <<parentOpen, state, ret, ops, faults, hist>>
     ELSE /\ state' = set(state, "synced")
          /\ parentOpen' = FALSE
          /\ IF ~parentOpen
             THEN \* close on a closed descriptor: EBADF
                  /\ ops' = Append(ops, "pclose@closed")
                  /\ ret' = "err"
                  /\ UNCHANGED <<faults, hist>>
             ELSE \E ok \in Outcomes :
                    /\ Issue("pclose", ok)
                    /\ ret' = IF ok THEN ret ELSE "err"
                    /\ hist' = Faulted(hist, ok)
  /\ pc' = "idle"
  /\ UNCHANGED <<inputVars, diskVars, fileOpen, tempPath, closeFn, commitFn,
                 isCommitted, ctlRest>>

\* ------------------------------------------------- stable storage, crash
Running == pc \notin {"start", "nofile", "crashed"}

\* the machine loses power. What is seen afterwards is the stable storage:
\* the directory as of the last parent fsync or any later state of it (the
\* kernel writes directory changes back in order), and the temporary file's
\* content as of its last fsync or any longer prefix of what was written.
\* A Dir issues only directory operations, so what is seen after its crash
\* is a state the Dir went through.
Crash ==
  /\ Running
  /\ pc' = "crashed"
  /\ IF kind = "file"
     THEN \E f \in {durFs} \cup {metaLog[i] : i \in DOMAIN metaLog},
             n \in Len(durData)..Len(data["tmp"]) :
            /\ fs' = f
            /\ data' = [data EXCEPT !["tmp"] = SubSeq(@, 1, n)]
     ELSE UNCHANGED <<fs, data>>
  /\ metaLog' = <<>> /\ durFs' = fs' /\ durData' = data'["tmp"]
  \* the process and its File or Dir object are gone
  /\ fileOpen' = FALSE /\ parentOpen' = FALSE
  /\ tempPath' = <<>> /\ closeFn' = "none" /\ commitFn' = "none"
  /\ state' = {} /\ isCommitted' = FALSE
  /\ call' = "none" /\ ret' = "nil" /\ ops' = <<>>
  /\ tries' = 0 /\ asides' = <<>> /\ faults' = 0 /\ calls' = 0
  /\ hist' = [hist EXCEPT !.failAt = "none", !.resume = "none",
                !.callFaults = 0, !.closesAfterOk = 0, !.commitsAfterOk = 0,
                !.fsAtCall = fs', !.tempAtCall = <<>>, !.done = {}]
  /\ UNCHANGED inputVars

\* ------------------------------------------------------------------- Dir
\* one turn of the loop of CreateDir
CreateDir ==
  /\ (pc = "start" /\ kind = "dir") \/ pc = "CreateDir"
  /\ call' = "CreateDir"
  /\ IF tries >= MaxTries
     THEN /\ pc' = "nofile" /\ ret' = "ErrExhausted" /\ tries' = 0
          /\ UNCHANGED <<diskVars, objVars, ops, faults, hist>>
     ELSE \E r \in RandBits, rnd \in Outcomes, ok \in Outcomes :
            LET path == makeTempPath(origPath, r)
            IN IF makeTempPathInvalid(origPath) \/ ~rnd
               THEN \* makeTempPath failed
                    /\ ok
                    /\ Issue("rand", rnd)
                    /\ pc' = "nofile" /\ ret' = "err" /\ tries' = 0
                    /\ hist' = Faulted(hist, rnd)
                    /\ UNCHANGED <<diskVars, objVars>>
               ELSE IF ~ok \/ Dir(path) \notin Containers
               THEN \* Mkdir failed, and not with EEXIST
                    /\ Issue("mkdir", ok)
                    /\ pc' = "nofile" /\ ret' = "err" /\ tries' = 0
                    /\ hist' = Faulted(hist, ok)
                    /\ UNCHANGED <<diskVars, objVars>>
               ELSE IF Taken(path)
               THEN \* the name is taken
                    /\ tries' = tries + 1
                    /\ pc' = "CreateDir"
                    /\ UNCHANGED <<ret, diskVars, objVars, ops, faults, hist>>
               ELSE /\ Issue("mkdir", TRUE)
                    /\ Mutate(With(fs, path, "tmp"))
                    /\ tempPath' = path
                    /\ closeFn' = "dirCloseUncommitted"
                    /\ pc' = "idle" /\ ret' = "nil" /\ tries' = 0
                    /\ UNCHANGED <<data, durFs, durData, commitFn, state,
                                   isCommitted, hist>>
  /\ UNCHANGED <<inputVars, handleVars, asides, calls>>

\* the caller creates one entry in the directory Name()
DirWrite ==
  /\ pc = "idle" /\ kind = "dir" /\ calls < MaxCalls
  /\ call' = "Write" /\ calls' = calls + 1
  /\ IF ~(tempPath \in DOMAIN fs /\ fs[tempPath] = "tmp")
     THEN /\ ret' = "err" /\ ops' = <<>>
          /\ hist' = Enter(hist)
          /\ UNCHANGED <<data, faults>>
     ELSE \E ok \in Outcomes :
            /\ ops' = <<"write">>
            /\ faults' = faults + (IF ok THEN 0 ELSE 1)
            /\ ret' = IF ok THEN "nil" ELSE "err"
            /\ data' = IF ok THEN [data EXCEPT !["tmp"] = Append(@, Chunk)] ELSE data
            /\ hist' = [Faulted(Enter(hist), ok) EXCEPT
                          !.written = IF ok THEN Append(@, Chunk) ELSE @]
  /\ UNCHANGED <<inputVars, fs, durFs, metaLog, durData, handleVars, objVars,
                 pc, tries, asides>>

\* the test of isCommitted is missing
AlreadyCommitted_Never == FALSE

\* Dir.Commit, line 152: if d.isCommitted
AlreadyCommitted == isCommitted

\* Dir.Commit, lines 151-156: the isCommitted test, then move
DirCommit ==
  /\ pc = "idle" /\ kind = "dir" /\ calls < MaxCalls
  /\ call' = "Commit" /\ calls' = calls + 1
  /\ pc' = IF AlreadyCommitted THEN "idle" ELSE "move"
  /\ ret' = IF AlreadyCommitted THEN "ErrCommitted" ELSE "nil"
  /\ ops' = <<>>
  /\ hist' = [Enter(hist) EXCEPT !.commitCalled = TRUE, !.resume = hist.failAt,
                !.commitsAfterOk = @ + (IF hist.commitOk THEN 1 ELSE 0)]
  /\ UNCHANGED <<inputVars, diskVars, handleVars, objVars, tries, asides, faults>>

\* Dir.Close: return d.closeFn(d)
DirClose ==
  /\ pc = "idle" /\ kind = "dir" /\ calls < MaxCalls
  /\ call' = "Close" /\ calls' = calls + 1
  /\ pc' = closeFn
  /\ ret' = "nil" /\ ops' = <<>>
  /\ hist' = [Enter(hist) EXCEPT !.closeCalled = TRUE, !.failAt = "none",
                !.discarded = @ \/ ~hist.renamed,
                !.closesAfterOk = @ + (IF hist.commitOk THEN 1 ELSE 0)]
  /\ UNCHANGED <<inputVars, diskVars, handleVars, objVars, tries, asides, faults>>

dirCloseAgainError ==
  /\ pc = "dirCloseAgainError"
  /\ pc' = "idle" /\ ret' = "ErrInvalid"
  /\ UNCHANGED <<inputVars, diskVars, handleVars, objVars, call, ops, tries,
                 asides, faults, calls, hist>>

dirCloseCommitted ==
  /\ pc = "dirCloseCommitted"
  /\ closeFn' = "dirCloseAgainError"
  /\ pc' = "idle" /\ ret' = "nil"
  /\ UNCHANGED <<inputVars, diskVars, handleVars, tempPath, commitFn, state,
                 isCommitted, call, ops, tries, asides, faults, calls, hist>>

\* what os.RemoveAll may leave of a directory's entries when it fails
Leftovers(c) == {SubSeq(c, 1, n) : n \in 0..Len(c)}

\* dirCloseUncommitted: os.RemoveAll(d.tempPath)
dirCloseUncommitted ==
  /\ pc = "dirCloseUncommitted"
  /\ closeFn' = "dirCloseAgainError"
  /\ \E ok \in Outcomes :
       /\ Issue("removeall", ok)
       /\ hist' = Faulted(hist, ok)
       /\ ret' = IF ok THEN "nil" ELSE "err"
       /\ IF ok
          THEN /\ Mutate(IF tempPath \in DOMAIN fs THEN Without(fs, tempPath) ELSE fs)
               /\ data' = data
          ELSE /\ UNCHANGED <<fs, metaLog>>
               /\ IF tempPath \in DOMAIN fs
                  THEN \E left \in Leftovers(data[fs[tempPath]]) :
                         data' = [data EXCEPT ![fs[tempPath]] = left]
                  ELSE data' = data
  /\ pc' = "idle"
  /\ UNCHANGED <<inputVars, durFs, durData, handleVars, tempPath, commitFn, state,
                 isCommitted, call, tries, asides, calls>>

\* Dir.Commit, lines 156-161, once move has returned
CommitReturns(h, ok) ==
  IF ok THEN [h EXCEPT !.commitOk = TRUE, !.failAt = "none"]
  ELSE [h EXCEPT !.failAt = "move"]

\* move, lines 69-76: os.Rename(oldPath, newPath)
move ==
  /\ pc = "move"
  /\ \E ok \in Outcomes :
       LET r == OsRename(fs, data, tempPath, origPath)
       IN /\ Issue("rename", ok)
          /\ IF ok /\ r.res = "ok"
             THEN \* this frame returns nil
                  /\ Mutate(r.fs)
                  /\ IF asides = <<>>
                     THEN /\ pc' = "idle" /\ ret' = "nil"
                          /\ closeFn' = "dirCloseCommitted"
                          /\ isCommitted' = TRUE
                          /\ hist' = [CommitReturns(hist, TRUE) EXCEPT !.renamed = TRUE]
                     ELSE /\ pc' = "forceRemoveAll"
                          /\ hist' = [hist EXCEPT !.renamed = TRUE]
                          /\ UNCHANGED <<ret, closeFn, isCommitted>>
                  /\ UNCHANGED <<asides, tries>>
             ELSE IF ok /\ r.res = "exist"
             THEN \* newPath is taken: rename it aside
                  /\ pc' = "renameToTemp" /\ tries' = 0
                  /\ UNCHANGED <<fs, metaLog, ret, closeFn, isCommitted, asides, hist>>
             ELSE \* every frame returns the error
                  /\ pc' = "idle" /\ ret' = "err"
                  /\ asides' = <<>>
                  /\ hist' = CommitReturns(Faulted(hist, ok), FALSE)
                  /\ UNCHANGED <<fs, metaLog, closeFn, isCommitted, tries>>
  /\ UNCHANGED <<inputVars, data, durFs, durData, handleVars, tempPath, commitFn,
                 state, call, calls>>

\* one turn of the loop of renameToTemp(newPath)
renameToTemp ==
  /\ pc = "renameToTemp"
  /\ IF tries >= MaxTries
     THEN /\ pc' = "idle" /\ ret' = "ErrExhausted" /\ tries' = 0
          /\ asides' = <<>>
          /\ hist' = CommitReturns(hist, FALSE)
          /\ UNCHANGED <<fs, metaLog, ops, faults>>
     ELSE \E r \in RandBits :
          LET tempName == makeTempName(origPath \o <<".original">>, r)
              res == OsRename(fs, data, origPath, tempName)
          IN \E rnd \in Outcomes, ok \in Outcomes :
               IF ~rnd
               THEN /\ ok
                    /\ Issue("rand", FALSE)
                    /\ pc' = "idle" /\ ret' = "err" /\ tries' = 0
                    /\ asides' = <<>>
                    /\ hist' = CommitReturns(Faulted(hist, FALSE), FALSE)
                    /\ UNCHANGED <<fs, metaLog>>
               ELSE IF ok /\ res.res = "ok"
               THEN /\ Issue("rename", TRUE)
                    /\ Mutate(res.fs)
                    /\ asides' = Append(asides, Clean(tempName))
                    /\ hist' = [hist EXCEPT !.asideMade = @ \cup {Clean(tempName)}]
                    /\ pc' = "move" /\ tries' = 0
                    /\ UNCHANGED ret
               ELSE IF ok /\ res.res = "exist"
               THEN /\ tries' = tries + 1
                    /\ UNCHANGED <<pc, ret, fs, metaLog, asides, ops, faults, hist>>
               ELSE /\ Issue("rename", ok)
                    /\ pc' = "idle" /\ ret' = "err" /\ tries' = 0
                    /\ asides' = <<>>
                    /\ hist' = CommitReturns(Faulted(hist, ok), FALSE)
                    /\ UNCHANGED <<fs, metaLog>>
  /\ UNCHANGED <<inputVars, data, durFs, durData, handleVars, objVars, call, calls>>

\* a walk that empties the directory it cannot make writable
forceRemoveAll_Destructive ==
  /\ pc = "forceRemoveAll"
  /\ \E ok \in Outcomes :
       LET p == asides[Len(asides)]
       IN /\ Issue("walk", ok)
          /\ IF ok /\ p \in DOMAIN fs
             THEN /\ pc' = "RemoveAll"
                  /\ UNCHANGED <<ret, asides, hist, data>>
             ELSE /\ pc' = "idle" /\ ret' = "err"
                  /\ asides' = <<>>
                  /\ data' = IF p \in DOMAIN fs THEN [data EXCEPT ![fs[p]] = <<>>]
                             ELSE data
                  /\ hist' = CommitReturns(Faulted(hist, ok), FALSE)
  /\ UNCHANGED <<inputVars, fs, durFs, metaLog, durData, handleVars, objVars,
                 call, tries, calls>>

\* forceRemoveAll(origTemp), lines 44-63: the walk that makes every entry
\* writable
forceRemoveAll ==
  /\ pc = "forceRemoveAll"
  /\ \E ok \in Outcomes :
       LET there == asides[Len(asides)] \in DOMAIN fs
       IN /\ Issue("walk", ok)
          /\ IF ok /\ there
             THEN /\ pc' = "RemoveAll"
                  /\ UNCHANGED <<ret, asides, hist>>
             ELSE /\ pc' = "idle" /\ ret' = "err"
                  /\ asides' = <<>>
                  /\ hist' = CommitReturns(Faulted(hist, ok), FALSE)
  /\ UNCHANGED <<inputVars, diskVars, handleVars, objVars, call, tries, calls>>

\* forceRemoveAll(origTemp), line 65: os.RemoveAll(p), and the return of
\* the move frame that called it
RemoveAll ==
  /\ pc = "RemoveAll"
  /\ \E ok \in Outcomes :
       LET p == asides[Len(asides)]
       IN /\ Issue("removeall", ok)
          /\ IF ok
             THEN /\ Mutate(Without(fs, p))
                  /\ data' = data
                  /\ asides' = SubSeq(asides, 1, Len(asides) - 1)
                  /\ IF asides' = <<>>
                     THEN /\ pc' = "idle" /\ ret' = "nil"
                          /\ closeFn' = "dirCloseCommitted"
                          /\ isCommitted' = TRUE
                          /\ hist' = CommitReturns(hist, TRUE)
                     ELSE /\ pc' = "forceRemoveAll"
                          /\ UNCHANGED <<ret, closeFn, isCommitted, hist>>
             ELSE /\ \E left \in Leftovers(data[fs[p]]) :
                       data' = [data EXCEPT ![fs[p]] = left]
                  /\ pc' = "idle" /\ ret' = "err"
                  /\ asides' = <<>>
                  /\ hist' = [CommitReturns(Faulted(hist, ok), FALSE)
                                EXCEPT !.asideCut = TRUE]
                  /\ UNCHANGED <<fs, metaLog, closeFn, isCommitted>>
  /\ UNCHANGED <<inputVars, durFs, durData, handleVars, tempPath, commitFn, state,
                 call, tries, calls>>

FileNext ==
  \/ openParent \/ CreateFile
  \/ FileWrite \/ FileSync \/ FileCommit \/ FileClose
  \/ closeAgainError \/ closeCommitted \/ commitClosed \/ commitCommitted
  \/ cuSync \/ cuClose \/ cuRename \/ cuFsync \/ cuPclose
  \/ xuClose \/ xuRemove \/ xuPclose
  \/ Crash

DirNext ==
  \/ CreateDir
  \/ DirWrite \/ DirCommit \/ DirClose
  \/ dirCloseAgainError \/ dirCloseCommitted \/ dirCloseUncommitted
  \/ move \/ renameToTemp \/ forceRemoveAll \/ RemoveAll

Next == FileNext \/ DirNext

Spec == Init /\ [][Next]_vars

\* ------------------------------------------------------------ properties
Orig == Clean(origPath)

\* the content found at the original path before the Create call
ContentBefore ==
  IF hist.before # "present" THEN <<>>
  ELSE IF kind = "file" THEN OldFile ELSE OldDir

\* the original path is as it was before the Create call
OrigUntouched ==
  IF hist.before = "absent" THEN Orig \notin DOMAIN fs
  ELSE Orig \in DOMAIN fs /\ fs[Orig] = "old" /\ data["old"] = ContentBefore

\* the original path holds everything the caller wrote, and nothing can be
\* added to it any more
OrigIsNew ==
  /\ Orig \in DOMAIN fs /\ fs[Orig] = "tmp"
  /\ data["tmp"] = hist.written
  /\ ~fileOpen

\* the File or Dir object exists
Created == pc \notin {"start", "CreateFile", "CreateDir", "nofile", "crashed"}

Returned(c) == pc = "idle" /\ call = c

\* the operations of the current call that touch the temporary file's handle
TempHandleOps == {i \in DOMAIN ops : ops[i] \in {"sync", "close", "sync@closed", "close@closed"}}

\* the operations of the current call issued on a handle already closed
ClosedHandleOps ==
  {i \in DOMAIN ops : ops[i] \in {"sync@closed", "close@closed", "rename@closed",
                                  "fsync@closed", "pclose@closed"}}

\* C1: File atomicity. In every state of a File, a crash at any point and
\* any OS failure included, the original path is as before the Create call
\* or holds the complete new content.
C1_FileAtomicity ==
  kind = "file" => OrigUntouched \/ OrigIsNew

\* C1 witness: after a crash the original path, which held the old file,
\* holds the new content
C1_Witness ==
  /\ kind = "file" /\ pc = "crashed" /\ hist.before = "present"
  /\ OrigIsNew /\ Len(hist.written) >= 2

\* C2: Directory atomicity, as claimed. With a directory at the original
\* path, the path always resolves to the complete old or the complete new
\* directory.
C2_DirAtomicity ==
  (kind = "dir" /\ hist.before = "present") => OrigUntouched \/ OrigIsNew

\* C3: No premature visibility. From the return of the Create call until the
\* first Commit or Close, the original path is untouched, the temporary
\* artifact exists under Name(), and Name() is not the original path.
C3_NoPrematureVisibility ==
  (Created /\ ~hist.commitCalled /\ ~hist.closeCalled) =>
     /\ OrigUntouched
     /\ tempPath \in DOMAIN fs /\ fs[tempPath] = "tmp"
     /\ tempPath # Orig

\* C3 witness: a File over an existing file, written and synced, not yet
\* committed
C3_Witness ==
  /\ kind = "file" /\ Returned("Sync") /\ ret = "nil"
  /\ hist.before = "present" /\ hist.written # <<>>
  /\ ~hist.commitCalled /\ ~hist.closeCalled

\* C4, as claimed: after a Close on an object on which Commit was never
\* called, the temporary path is gone and the original path is untouched.
C4_RollbackAlways ==
  (Returned("Close") /\ ~hist.commitCalled) =>
     tempPath \notin DOMAIN fs /\ OrigUntouched

\* C4, amended: after a Close on an object on which Commit was never called,
\* the original path is untouched, and the temporary path is gone whenever
\* Close returned no error.
C4_RollbackOnDiscard ==
  (Returned("Close") /\ ~hist.commitCalled) =>
     /\ OrigUntouched
     /\ ret = "nil" => tempPath \notin DOMAIN fs

\* C4 witness: a written File over an existing file, closed without error
C4_Witness ==
  /\ kind = "file" /\ Returned("Close") /\ ret = "nil" /\ ~hist.commitCalled
  /\ hist.before = "present" /\ hist.written # <<>> /\ hist.callFaults = 0

\* C5: Resumable rename failure. A Commit that follows a Commit failed at
\* the rename step, and in which nothing is made to fail, returns success,
\* issues no Sync or Close on the temporary file, and leaves the new data at
\* the original path.
C5_ResumeAfterRename ==
  (kind = "file" /\ Returned("Commit") /\ hist.resume = "rename"
     /\ hist.callFaults = 0) =>
     /\ ret = "nil"
     /\ TempHandleOps = {}
     /\ OrigIsNew

\* C5 witness: such a Commit has returned, over an existing file
C5_Witness ==
  /\ kind = "file" /\ Returned("Commit") /\ hist.resume = "rename"
  /\ hist.callFaults = 0 /\ ret = "nil"
  /\ hist.before = "present" /\ hist.written # <<>>

\* C6: Retry after any step failure, as claimed. A Commit that follows a
\* failed Commit, and in which nothing is made to fail, returns success with
\* the new content in place and issues nothing on a closed handle.
C6_RetryAfterAnyStep ==
  (kind = "file" /\ Returned("Commit") /\ hist.resume # "none"
     /\ hist.callFaults = 0) =>
     /\ ret = "nil"
     /\ OrigIsNew
     /\ ClosedHandleOps = {}

C8_CloseAfterCommit ==
  (call = "Close" /\ hist.closesAfterOk > 0) =>
     /\ ops = <<>> /\ fs = hist.fsAtCall
     /\ Orig \in DOMAIN fs /\ fs[Orig] = "tmp"
     /\ pc = "idle" =>
          ret = (IF hist.closesAfterOk = 1 THEN "nil" ELSE "ErrInvalid")

\* C8 witness: the second Close after a successful File commit
C8_Witness ==
  /\ kind = "file" /\ Returned("Close") /\ hist.closesAfterOk = 2
  /\ ret = "ErrInvalid"

\* C9: Commit after discard (File). After a Close on a File never renamed
\* into place, every Commit returns the rolled-back error, issues no
\* filesystem operation, and the original path stays untouched.
C9_CommitAfterDiscardFile ==
  (kind = "file" /\ call = "Commit" /\ hist.discarded) =>
     /\ ops = <<>> /\ fs = hist.fsAtCall
     /\ OrigUntouched
     /\ pc \in {"idle", "commitClosed"}
     /\ pc = "idle" => ret = "ErrRolledBack"

\* C9 witness: a Commit returned on a File discarded after a failed Commit
C9_Witness ==
  /\ kind = "file" /\ Returned("Commit") /\ hist.discarded
  /\ hist.before = "present" /\ faults > 0

\* C10: Commit after discard (Dir), as claimed. After a Close on a Dir never
\* committed, every Commit returns the rolled-back error and attempts no
\* rename or removal. Stated for the runs in which no OS operation fails.
C10_CommitAfterDiscardDir ==
  (kind = "dir" /\ call = "Commit" /\ hist.discarded /\ faults = 0) =>
     /\ ops = <<>>
     /\ pc = "idle" => ret = "ErrRolledBack"

\* C11: Directory commit result. When Dir.Commit returns success, over an
\* absent original path or over a non-empty directory, on the first call or
\* on a later one, the original path is a directory holding exactly what the
\* temporary directory held when Commit was called (everything the caller
\* wrote, if Close was never called), and Name() no longer exists.
C11_DirCommitResult ==
  (kind = "dir" /\ Returned("Commit") /\ ret = "nil") =>
     /\ Orig \in DOMAIN fs /\ fs[Orig] = "tmp" /\ IsDir(fs[Orig])
     /\ data["tmp"] = hist.tempAtCall
     /\ ~hist.closeCalled => data["tmp"] = hist.written
     /\ tempPath \notin DOMAIN fs

\* C11 witness: a Commit over a non-empty directory returned success with
\* the caller's entries at the original path
C11_Witness ==
  /\ kind = "dir" /\ Returned("Commit") /\ ret = "nil"
  /\ hist.before = "present" /\ hist.written # <<>>
  /\ hist.asideMade # {} /\ Orig \in DOMAIN fs /\ fs[Orig] = "tmp"

\* the original path holds the complete new directory
NewDirInPlace ==
  /\ Orig \in DOMAIN fs /\ fs[Orig] = "tmp"
  /\ ~hist.discarded => data["tmp"] = hist.written
  /\ pc # "crashed" => data["tmp"] = hist.tempAtCall

\* the new directory was renamed into place by a move that had renamed the
\* old one aside, and the deletion of the aside artifact has not completed
AsidePending ==
  kind = "dir" /\ hist.renamed /\ hist.asideMade # {} /\ ~hist.commitOk

\* C12: Directory swap recoverability, as claimed. Once the new directory is
\* in place and until the aside artifact is deleted, whether the process
\* stops or the delete step fails, the original path shows the complete new
\* directory and the aside artifact exists with the complete old content.
C12_AsideIntact ==
  AsidePending =>
     /\ NewDirInPlace
     /\ \E a \in hist.asideMade :
          a \in DOMAIN fs /\ fs[a] = "old" /\ data["old"] = OldDir

\* C12, amended: the original path shows the complete new directory and the
\* aside artifact exists; it holds the complete old content unless
\* os.RemoveAll itself failed, and then it holds a part of it.
C12_AsideRecoverable ==
  AsidePending =>
     /\ NewDirInPlace
     /\ \E a \in hist.asideMade :
          /\ a \in DOMAIN fs /\ fs[a] = "old"
          /\ \E n \in 0..Len(OldDir) : data["old"] = SubSeq(OldDir, 1, n)
          /\ ~hist.asideCut => data["old"] = OldDir

\* C12 witness: the process stopped after the rename into place, before the
\* aside artifact was deleted
C12_Witness ==
  /\ AsidePending /\ pc = "crashed" /\ hist.written # <<>>
  /\ \E a \in hist.asideMade : a \in DOMAIN fs /\ data["old"] = OldDir

\* the names a creation attempt can generate
TempNames == {TempPathOf(kind, origPath, r) : r \in RandBits}

\* the calling thread is at a turn of the loop of CreateFile or CreateDir
InCreateLoop == pc \in {"CreateFile", "CreateDir"} \/ (pc = "start" /\ kind = "dir")

\* C13: Collision-retry creation. Every turn of the creation loop of
\* CreateFile and CreateDir is turn i < 1000 and draws a fresh name, or is
\* the exit with the exhausted error after 1000 collisions. A turn whose
\* name exists changes nothing and is followed by turn i + 1, a turn that
\* fails otherwise ends the call with that error, a turn that succeeds ends
\* the call with success and adds one entry under a name that did not
\* exist. No turn changes or removes an entry that was there.
C13_CollisionRetry ==
  [][(InCreateLoop /\ pc' # "crashed") =>
       /\ tries <= MaxTries
       /\ \A q \in DOMAIN fs : q \in DOMAIN fs' /\ fs'[q] = fs[q]
       /\ data' = data
       /\ ret' = "ErrExhausted" <=> tries = MaxTries
       /\ tries = MaxTries => pc' = "nofile" /\ fs' = fs
       /\ tries < MaxTries =>
            \/ /\ tries' = tries + 1 /\ pc' \in {"CreateFile", "CreateDir"}
               /\ fs' = fs /\ TempNames \cap DOMAIN fs # {}
            \/ pc' = "nofile" /\ ret' = "err" /\ fs' = fs /\ tries' = 0
            \/ /\ pc' = "idle" /\ ret' = "nil" /\ tries' = 0
               /\ tempPath' \in TempNames \ DOMAIN fs
               /\ fs' = With(fs, tempPath', "tmp")]_vars

\* C13 witness: CreateFile gave up after 1000 collisions, with the entries
\* that were in the directory still there
C13_Witness ==
  /\ kind = "file" /\ pc = "nofile" /\ ret = "ErrExhausted"
  /\ fs = hist.disk0 /\ hist.before = "present"

\* the operations the current call issued under one of the given names
Issued(names) == {i \in DOMAIN ops : ops[i] \in names}

\* C14: Durable-sequence ordering. In every File.Commit, first or retried, a
\* rename into the original path is issued only after the temporary file's
\* Sync and Close have both succeeded (so everything written is on stable
\* storage), the parent-directory fsync is issued only after the rename has
\* succeeded, and Commit returns success only after the parent-directory
\* fsync has succeeded.
C14_DurableOrder ==
  (kind = "file" /\ call = "Commit") =>
     /\ Issued({"rename", "rename@closed"}) # {} =>
          /\ {"sync", "close"} \subseteq hist.done
          /\ durData = hist.written /\ data["tmp"] = hist.written
     /\ Issued({"fsync", "fsync@closed"}) # {} => "rename" \in hist.done
     /\ (pc = "idle" /\ ret = "nil") => "fsync" \in hist.done

\* C14 witness: a Commit retried after a failed rename returned success
C14_Witness ==
  /\ kind = "file" /\ Returned("Commit") /\ ret = "nil"
  /\ hist.resume = "rename" /\ hist.written # <<>>
  /\ hist.done = {"sync", "close", "rename", "fsync", "pclose"}
  /\ ops = <<"rename", "fsync", "pclose">>

C16_CloseAfterPlacement ==
  (kind = "file" /\ call = "Close" /\ hist.resume \in {"fsync", "pclose"}
     /\ hist.callFaults = 0) =>
     /\ Issued({"remove", "rename"}) = {} /\ fs = hist.fsAtCall
     /\ pc = "idle" => ret = "nil"

\* the ways the temporary artifact has left its temporary name
Destroyed == hist.done \cap {"rename", "remove"}

\* the first Close of the File has returned
ClosedOnce ==
  kind = "file" /\ Returned("Close") /\ ret # "ErrInvalid"

\* C17: Single destruction, as claimed. Once Close has returned, the
\* temporary artifact has been removed or renamed away exactly once and is
\* not on disk under its temporary name.
C17_DestroyedOnce ==
  ClosedOnce => Cardinality(Destroyed) = 1 /\ tempPath \notin DOMAIN fs

\* C17, amended: the temporary artifact is never both renamed away and
\* removed, no remove is issued once it has been renamed away and at most
\* one is issued at all; once Close has returned without error it has been
\* destroyed exactly once and is not on disk under its temporary name; when
\* Close returned an error and nothing destroyed it, it is still there.
C17_DestroyedAtMostOnce ==
  kind = "file" =>
     /\ Cardinality(Destroyed) <= 1
     /\ Cardinality(Issued({"remove"})) <= 1
     /\ Issued({"remove"}) # {} => "rename" \notin hist.done
     /\ (ClosedOnce /\ ret = "nil") =>
          Cardinality(Destroyed) = 1 /\ tempPath \notin DOMAIN fs
     /\ (ClosedOnce /\ Destroyed = {}) =>
          ret = "err" /\ tempPath \in DOMAIN fs /\ fs[tempPath] = "tmp"

\* C17 witness: a Close after a Commit that failed at the rename removed the
\* temporary file
C17_Witness ==
  /\ ClosedOnce /\ ret = "nil" /\ hist.resume = "rename"
  /\ Destroyed = {"remove"} /\ tempPath \notin DOMAIN fs
  /\ hist.written # <<>>

\* C18: Aside placement, as claimed. Whenever move has found the destination
\* occupied and renameToTemp is about to rename it, every name renameToTemp
\* can generate lies in the parent directory of the destination.
C18_AsideBeside ==
  pc = "renameToTemp" =>
     \A r \in RandBits : Dir(AsidePathOf(origPath, r)) = Dir(Orig)

\* C19: Handle release on creation failure, as claimed. Whenever CreateFile
\* has returned an error, the parent-directory handle is not open.
C19_NoHandleLeak ==
  (kind = "file" /\ pc = "nofile" /\ call = "CreateFile") => ~parentOpen

\* C20: Parent-handle lifecycle, as claimed. For every File, no close, fsync
\* or rename is issued on the parent-directory handle after a close was
\* issued on it, and the handle is closed once Commit has returned success
\* or Close has returned.
C20_ParentLifecycle ==
  kind = "file" =>
     /\ Issued({"rename@closed", "fsync@closed", "pclose@closed"}) = {}
     /\ (hist.commitOk \/ Returned("Close")) => ~parentOpen

\* C21: No orphaned aside after success, as claimed. Whenever Dir.Commit has
\* returned success, on the first call or on a retry, no aside artifact made
\* by a commit of this Dir is left on disk.
C21_NoOrphanedAside ==
  (kind = "dir" /\ Returned("Commit") /\ ret = "nil") =>
     \A a \in hist.asideMade : a \notin DOMAIN fs

\* C22: Rolled-back means not placed, as claimed. Whenever File.Commit has
\* returned the rolled-back error, the temporary file was never renamed to
\* the original path and the new content is not there.
C22_RolledBackNotPlaced ==
  (kind = "file" /\ Returned("Commit") /\ ret = "ErrRolledBack") =>
     /\ ~hist.renamed
     /\ ~(Orig \in DOMAIN fs /\ fs[Orig] = "tmp")
====
